---- MODULE Spec2Model ----
(***************************************************************************)
(* State-machine model of the pseudo-3D racing game: the frame loop, the   *)
(* race state machine, the per-vehicle physics and the decoration          *)
(* collision test of the two-human (split screen) build and of the         *)
(* single-human build with one AI opponent.                                *)
(*                                                                         *)
(* Numbers are fixed point, all integers:                                  *)
(*   time, dt, timers, lap times      milliseconds                         *)
(*   speed                            world units per second               *)
(*   position, lengths                1/1000 world unit, so that           *)
(*                                    position += speed*dt is exact        *)
(*   playerX, sprite offsets, curve   1/1000                               *)
(*   screenShake                      1/1000                               *)
(***************************************************************************)
EXTENDS Integers, Sequences, FiniteSets, TLC

VARIABLES build, running, now, keys, keyEvents, game,
          track, probe, images, startPc, pendingFrames, stopCalled, travelled

\* the Track under construction, the argument and result of a findSegment
\* call, the images loadAssets requested, the position of start(), the frame
\* callbacks requestAnimationFrame holds, and whether stop() has been called;
\* travelled records, per human vehicle, the sum of the speed * dt steps of
\* the current race (a history of the position field, which the code wraps)
others == <<track, probe, images, startPc, pendingFrames, stopCalled, travelled>>

vars == <<build, running, now, keys, keyEvents, game, others>>

(***************************************************************************)
(* Bounds of the model.                                                    *)
(***************************************************************************)
\* the model's circuit is the first NumSegments segments of createSilverstone
NumSegments == 13
\* keydown/keyup events delivered while a race is running or finished
MaxKeyEvents == 1
\* the clock value (performance.now()) at which start() runs
StartClock == 1000
\* frames are requested while the clock is below StartClock + the elapsed
\* time allowed to the build (frames of the single-human build are longer)
MaxElapsedTwo == 6000
MaxElapsedSingle == 7500
\* late frames are requested while the clock is below StartClock + MaxElapsedLate
MaxElapsedLate == 4500
\* the landmark images and the car sprites loadAssets requests besides the tree
NumLandmarks == 2
NumCarSprites == 2
\* frames of the life cycle are requested while the clock is below
\* StartClock + MaxElapsedLife
MaxElapsedLife == 300
\* findSegment is called with positions shifted by -MaxShift..MaxShift laps
MaxShift == 2
\* the segments a projection pass walks ahead of the vehicle (of the
\* drawDistance of 300 on the circuit of 1680 segments)
DrawDistance == 6

(***************************************************************************)
(* Program constants.                                                      *)
(***************************************************************************)
ROAD_HALFWIDTH == 1000
RUMBLE_WIDTH_RATIO == 200
BUILDING_SAFETY_MARGIN == 200
OFF_ROAD_MAX_SPEED == 8000
MAX_REVERSE_SPEED == -3000
COLLISION_THRESHOLD == 500
PLAYER_Z_OFFSET == 640000
TOTAL_LAPS == 3
segmentLength == 200000
rumbleLength == 3
maxSpeed == 24000
accel == 100
breaking == 300
decel == 50
offRoadDecel == 200
steeringSpeed == 2500
turnLimitSpeed == 10000
CountdownStart == 3500
ShakeMagnitude == 20000

Builds == {"two", "single"}
NoWinner == 0

Max(a, b) == IF a >= b THEN a ELSE b
Min(a, b) == IF a <= b THEN a ELSE b
Abs(a) == IF a < 0 THEN -a ELSE a

\* Math.min(0.1, ...) in the two-human loop, Math.min(1, ...) in the single-human one
MaxDt(b) == IF b = "two" THEN 100 ELSE 1000

\* gaps (ms) between the timestamps of two consecutive frames
FrameGaps(b) == IF b = "two" THEN {100} ELSE {500, 1000}

\* gaps between timestamps when frames arrive late (a busy or hidden page)
LateFrameGaps(b) == IF b = "two" THEN {100, 250} ELSE {1000, 2500}

\* the elapsed time within which frames are requested
MaxElapsed(b) == IF b = "two" THEN MaxElapsedTwo ELSE MaxElapsedSingle

\* key codes the keyboard delivers
KeyCodes == {"ArrowUp", "ArrowDown", "ArrowRight", "KeyW", "Enter"}

(***************************************************************************)
(* Track                                                                   *)
(***************************************************************************)
trackLength == NumSegments * segmentLength

SPRITE_WIDTHS(source) ==
    CASE source = "/car.png" -> 350
      [] source = "/tree.png" -> 300
      [] source = "/wing.png" -> 8000
      [] source = "/grandstand.png" -> 4000
      [] source = "/hangar.png" -> 5000
      [] source = "/billboard.png" -> 1200
      [] OTHER -> 1000

\* addSideObject placing the centre of the object, not its inner edge, at the margin
SideObjectOffsetCentred(source, side, margin) ==
    side * (1000 + RUMBLE_WIDTH_RATIO + BUILDING_SAFETY_MARGIN + margin)

\* offset of a side object, in 1/1000 road half-widths; margin in 1/1000
SideObjectOffset(source, side, margin) ==
    side * (1000 + RUMBLE_WIDTH_RATIO + BUILDING_SAFETY_MARGIN + margin
            + ((SPRITE_WIDTHS(source) * 1000) \div 2) \div ROAD_HALFWIDTH)

\* the decorations createSilverstone attaches to segment i of the opening
\* straight (segments 0..149 have curve 0)
SegSprites(i) ==
    (IF i = 10 THEN {[source |-> "/wing.png", offset |-> SideObjectOffset("/wing.png", 1, 200)],
                     [source |-> "/billboard.png", offset |-> SideObjectOffset("/billboard.png", -1, 100)]}
     ELSE {})
    \cup (IF i = 5 THEN {[source |-> "/billboard.png", offset |-> SideObjectOffset("/billboard.png", -1, 100)]}
          ELSE {})
    \cup (IF i = 30 THEN {[source |-> "/billboard.png", offset |-> SideObjectOffset("/billboard.png", 1, 100)]}
          ELSE {})
    \cup (IF i >= 10 /\ i < 200 /\ (i - 10) % 20 = 0
          THEN {[source |-> "/tree.png", offset |-> -2500], [source |-> "/tree.png", offset |-> 1500]}
          ELSE {})

SegCurve(i) == 0

\* the JavaScript remainder a % n, which has the sign of a
JsRem(a, n) == IF a >= 0 THEN a % n ELSE -((-a) % n)

\* index of the segment owning a position: Math.floor(position / segmentLength)
\* % segments.length; a negative index is no segment (segments[index] is undefined)
findSegment(position) == JsRem(position \div segmentLength, NumSegments)

\* no findSegment call made
NoProbe == [position |-> 0, k |-> 0, called |-> FALSE, segment |-> 0]

(***************************************************************************)
(* Input                                                                   *)
(***************************************************************************)
\* isDown answering for any key held
isDownAny(k, code) == k # {}

\* InputHandler.isDown
isDown(k, code) == code \in k

\* two-human build: player 1 drives with the arrow keys, player 2 with WASD
getKeys(k, id) ==
    IF id = 1
    THEN [throttle |-> isDown(k, "ArrowUp"), brake |-> isDown(k, "ArrowDown"),
          left |-> isDown(k, "ArrowLeft"), right |-> isDown(k, "ArrowRight")]
    ELSE [throttle |-> isDown(k, "KeyW"), brake |-> isDown(k, "KeyS"),
          left |-> isDown(k, "KeyA"), right |-> isDown(k, "KeyD")]

\* single-human build: the getters of InputHandler accept either key set
inputGetters(k) ==
    [throttle |-> isDown(k, "ArrowUp") \/ isDown(k, "KeyW"),
     brake |-> isDown(k, "ArrowDown") \/ isDown(k, "KeyS"),
     left |-> isDown(k, "ArrowLeft") \/ isDown(k, "KeyA"),
     right |-> isDown(k, "ArrowRight") \/ isDown(k, "KeyD")]

inputEnter(k) == isDown(k, "Enter")

(***************************************************************************)
(* Vehicle dynamics of a human vehicle (the same code in both builds)      *)
(***************************************************************************)
isOffRoad(playerX) == playerX < -1000 \/ playerX > 1000

\* "Acceleration and Breaking"
Accelerate(speed, in, offRoad, dt) ==
    IF in.throttle
    THEN speed + ((IF offRoad THEN (accel * 6) \div 10 ELSE accel) * 60 * dt) \div 1000
    ELSE IF in.brake
    THEN IF speed > 0 THEN speed - (breaking * 60 * dt) \div 1000
                      ELSE speed - (accel * 30 * dt) \div 1000
    ELSE IF speed > 0 THEN speed - (decel * 60 * dt) \div 1000
    ELSE IF speed < 0 THEN speed + (decel * 60 * dt) \div 1000
    ELSE speed

\* turn_multiplier, in 1/1000, from the speed after acceleration
TurnMultiplier(speed) ==
    Max(400, 1000 - ((speed - turnLimitSpeed) * 1000) \div (maxSpeed - turnLimitSpeed))

\* "Steering": speedPercent is taken from the speed before acceleration
Steer(playerX, in, speedBefore, speedAfter, dt) ==
    LET steering_input == IF in.left THEN -1 ELSE IF in.right THEN 1 ELSE 0
        spTurn == (speedBefore * TurnMultiplier(speedAfter)) \div maxSpeed
    IN  playerX + steering_input * ((((steeringSpeed * spTurn) \div 1000) * dt) \div 1000)

\* "Centrifugal force"
CurvePull(curve, speedBefore, dt) ==
    LET speedPercent == (speedBefore * 1000) \div maxSpeed
        spSq == (speedPercent * speedPercent) \div 1000
    IN  (((curve * spSq) \div 1000) * 3 * dt) \div 1000

\* "Off-road penalty"
OffRoadPenalty(speed, offRoad, dt) ==
    LET decelForce == IF Abs(speed) > OFF_ROAD_MAX_SPEED
                      THEN (offRoadDecel * 100 * dt) \div 1000
                      ELSE (offRoadDecel * 10 * dt) \div 1000
    IN  IF ~offRoad THEN speed
        ELSE IF speed > 0 THEN Max(0, speed - decelForce)
        ELSE IF speed < 0 THEN Min(0, speed + decelForce)
        ELSE speed

\* "Collision Detection": the test made for one decoration of the visual segment
visualPosition(position) == (position + PLAYER_Z_OFFSET) % trackLength

isLongitudinallyClose(position) ==
    visualPosition(position) % segmentLength < (segmentLength * COLLISION_THRESHOLD) \div 1000

isLaterallyOverlapping(playerX, spriteData) ==
    Abs(playerX - spriteData.offset)
        < ((SPRITE_WIDTHS(spriteData.source) * 1000) \div 2) \div ROAD_HALFWIDTH + 100

\* some decoration of the visual segment is hit
Collides(position, playerX, speed) ==
    \E spriteData \in SegSprites(findSegment(visualPosition(position))) :
        /\ isLongitudinallyClose(position)
        /\ isLaterallyOverlapping(playerX, spriteData)
        /\ speed > 0

ClampX(playerX) == Max(-2000, Min(2000, playerX))

ClampSpeed(speed) == Max(MAX_REVERSE_SPEED, Min(speed, maxSpeed))

\* Drive integrating the position with the speed before the clamp
DriveClampLate(p, in, dt) ==
    LET offRoad == isOffRoad(p.playerX)
        curve == SegCurve(findSegment(p.position))
        speed1 == Accelerate(p.speed, in, offRoad, dt)
        x1 == Steer(p.playerX, in, p.speed, speed1, dt) - CurvePull(curve, p.speed, dt)
        speed2 == OffRoadPenalty(speed1, offRoad, dt)
        hit == Collides(p.position, x1, speed2)
        speed3 == IF hit THEN 0 ELSE speed2
    IN  [p EXCEPT !.playerX = ClampX(x1),
                  !.speed = ClampSpeed(speed3),
                  !.screenShake = IF hit THEN ShakeMagnitude ELSE @,
                  !.position = @ + speed3 * dt]

\* the part of update from the acceleration to "position += speed * dt"
Drive(p, in, dt) ==
    LET offRoad == isOffRoad(p.playerX)
        curve == SegCurve(findSegment(p.position))
        speed1 == Accelerate(p.speed, in, offRoad, dt)
        x1 == Steer(p.playerX, in, p.speed, speed1, dt) - CurvePull(curve, p.speed, dt)
        speed2 == OffRoadPenalty(speed1, offRoad, dt)
        hit == Collides(p.position, x1, speed2)
        speed3 == ClampSpeed(IF hit THEN 0 ELSE speed2)
    IN  [p EXCEPT !.playerX = ClampX(x1),
                  !.speed = speed3,
                  !.screenShake = IF hit THEN ShakeMagnitude ELSE @,
                  !.position = @ + speed3 * dt]

(***************************************************************************)
(* Construction                                                            *)
(***************************************************************************)
PlayerIds(b) == IF b = "two" THEN {1, 2} ELSE {1}

\* new Player(id, startX, color); in the single-human build the same fields
\* are fields of Game and the constructor sets playerX
NewPlayer(startX) ==
    [position |-> 0, speed |-> 0, playerX |-> startX, currentLap |-> 1,
     lapStartTime |-> 0, lastLapTime |-> 0, bestLapTime |-> 0, screenShake |-> 0]

StartX(b, id) == IF b = "two" THEN (IF id = 1 THEN 450 ELSE -450) ELSE 450

\* new Opponent(PLAYER_Z_OFFSET, 12000, -0.45, '/car.png', -0.45)
NewOpponent ==
    [position |-> PLAYER_Z_OFFSET, speed |-> 12000, playerX |-> -450, targetX |-> -450]

NoFinishTimes == [id \in {} |-> 0]

NewGame(b) ==
    [gameState |-> "COUNTDOWN",
     countdownTimer |-> CountdownStart,
     raceStartTime |-> 0,
     lastTime |-> 0,
     winnerId |-> NoWinner,
     playerFinishTimes |-> NoFinishTimes,
     totalRaceTime |-> 0,
     players |-> [id \in PlayerIds(b) |-> NewPlayer(StartX(b, id))],
     opponents |-> IF b = "two" THEN <<>> ELSE <<NewOpponent>>]

(***************************************************************************)
(* Opponent.update                                                         *)
(***************************************************************************)
OpponentUpdate(o, dt) ==
    LET curve == SegCurve(findSegment(o.position))
        x1 == Max(-1500, Min(1500, o.playerX + (o.targetX - o.playerX) \div 10))
        speedPercent == (o.speed * 1000) \div 24000
        centrifugal_force == -((curve * ((speedPercent * speedPercent) \div 1000)) \div 1000)
        speed1 == IF Abs(curve) > 2000 THEN o.speed - (((100 * dt) \div 1000) * Abs(curve)) \div 1000
                                       ELSE o.speed + (50 * dt) \div 1000
        speed2 == Max(5000, Min(speed1, 20000))
    IN  [o EXCEPT !.playerX = x1 + centrifugal_force \div 10,
                  !.speed = speed2,
                  !.position = (@ + speed2 * dt) % trackLength]

(***************************************************************************)
(* Game.reset                                                              *)
(***************************************************************************)
\* Player.reset(startX)
PlayerReset(p, startX) ==
    [p EXCEPT !.position = 0, !.speed = 0, !.playerX = startX, !.currentLap = 1,
              !.lapStartTime = 0, !.lastLapTime = 0, !.bestLapTime = 0, !.screenShake = 0]

\* two-human build; clock is performance.now()
ResetTwo(g, clock) ==
    [g EXCEPT !.gameState = "COUNTDOWN",
              !.countdownTimer = CountdownStart,
              !.players = [id \in DOMAIN @ |-> PlayerReset(@[id], IF id = 1 THEN 450 ELSE -450)],
              !.winnerId = NoWinner,
              !.playerFinishTimes = NoFinishTimes,
              !.lastTime = clock]

\* single-human build
ResetSingle(g) ==
    [g EXCEPT !.players[1].position = 0,
              !.players[1].speed = 0,
              !.players[1].playerX = 400,
              !.players[1].currentLap = 1,
              !.gameState = "COUNTDOWN",
              !.countdownTimer = CountdownStart,
              !.raceStartTime = 0,
              !.totalRaceTime = 0,
              !.players[1].lapStartTime = 0,
              !.players[1].lastLapTime = 0,
              !.opponents = [i \in DOMAIN @ |-> [@[i] EXCEPT !.position = PLAYER_Z_OFFSET,
                                                              !.playerX = -450]]]

(***************************************************************************)
(* Game.update                                                             *)
(***************************************************************************)
\* CountdownStep with the transition at a timer strictly below zero
CountdownStepStrict(g, dt, timestamp) ==
    IF g.countdownTimer > -1000
    THEN LET t == g.countdownTimer - dt
         IN  IF g.gameState = "COUNTDOWN" /\ t < 0
             THEN [g EXCEPT !.countdownTimer = t,
                            !.gameState = "RACING",
                            !.raceStartTime = timestamp,
                            !.players = [id \in DOMAIN @ |-> [@[id] EXCEPT !.lapStartTime = timestamp]]]
             ELSE [g EXCEPT !.countdownTimer = t]
    ELSE g

\* "Handle Countdown timer regardless of state"
CountdownStep(g, dt, timestamp) ==
    IF g.countdownTimer > -1000
    THEN LET t == g.countdownTimer - dt
         IN  IF g.gameState = "COUNTDOWN" /\ t <= 0
             THEN [g EXCEPT !.countdownTimer = t,
                            !.gameState = "RACING",
                            !.raceStartTime = timestamp,
                            !.players = [id \in DOMAIN @ |-> [@[id] EXCEPT !.lapStartTime = timestamp]]]
             ELSE [g EXCEPT !.countdownTimer = t]
    ELSE g

\* CompleteLap taking every lap as the best one
CompleteLapBestIsLast(p, timestamp) ==
    LET last == timestamp - p.lapStartTime
    IN  [p EXCEPT !.currentLap = @ + 1,
                  !.lastLapTime = last,
                  !.lapStartTime = timestamp,
                  !.bestLapTime = last]

\* a completed lap: lap count, last-lap, lap-start and best-lap of one vehicle
CompleteLap(p, timestamp) ==
    LET last == timestamp - p.lapStartTime
    IN  [p EXCEPT !.currentLap = @ + 1,
                  !.lastLapTime = last,
                  !.lapStartTime = timestamp,
                  !.bestLapTime = IF @ = 0 \/ last < @ THEN last ELSE @]

\* LapTimingTwo storing the finish time at every finish check
LapTimingTwoOverwrite(g, id, timestamp) ==
    LET p == g.players[id]
    IN  IF p.position >= trackLength
        THEN IF p.currentLap >= TOTAL_LAPS
             THEN LET g1 == IF g.winnerId = NoWinner THEN [g EXCEPT !.winnerId = id] ELSE g
                  IN  [g1 EXCEPT !.playerFinishTimes =
                                     (id :> (timestamp - g.raceStartTime))
                                     @@ [o \in DOMAIN @ \ {id} |-> @[o]],
                                 !.players[id].speed = 0]
             ELSE [g EXCEPT !.players[id] = CompleteLap([p EXCEPT !.position = @ - trackLength], timestamp)]
        ELSE g

\* LapTimingTwo naming the winner at every finish check
LapTimingTwoLastWins(g, id, timestamp) ==
    LET p == g.players[id]
    IN  IF p.position >= trackLength
        THEN IF p.currentLap >= TOTAL_LAPS
             THEN LET g1 == [g EXCEPT !.winnerId = id]
                  IN  IF id \notin DOMAIN g1.playerFinishTimes
                      THEN [g1 EXCEPT !.playerFinishTimes = (id :> (timestamp - g.raceStartTime)) @@ @,
                                      !.players[id].speed = 0]
                      ELSE g1
             ELSE [g EXCEPT !.players[id] = CompleteLap([p EXCEPT !.position = @ - trackLength], timestamp)]
        ELSE g

\* two-human build, "Lap Timing" of one player after the integration
LapTimingTwo(g, id, timestamp) ==
    LET p == g.players[id]
    IN  IF p.position >= trackLength
        THEN IF p.currentLap >= TOTAL_LAPS
             THEN LET g1 == IF g.winnerId = NoWinner THEN [g EXCEPT !.winnerId = id] ELSE g
                  IN  IF id \notin DOMAIN g1.playerFinishTimes
                      THEN [g1 EXCEPT !.playerFinishTimes = (id :> (timestamp - g.raceStartTime)) @@ @,
                                      !.players[id].speed = 0]
                      ELSE g1
             ELSE [g EXCEPT !.players[id] = CompleteLap([p EXCEPT !.position = @ - trackLength], timestamp)]
        ELSE g

\* no wrap of a position below 0
WrapBackwardsNone(position) == position

\* "Loop track backwards if necessary"
WrapBackwards(position) == IF position < 0 THEN position % trackLength ELSE position

\* decay of the screen shake by rate (1/s) over dt
DecayShake(shake, rate, dt) == IF shake > 0 THEN Max(0, shake - rate * dt) ELSE shake

\* two-human build, the body of the loop over the players
UpdatePlayer(g, id, k, dt, timestamp) ==
    LET g1 == [g EXCEPT !.players[id] = Drive(@, getKeys(k, id), dt)]
        g2 == LapTimingTwo(g1, id, timestamp)
    IN  [g2 EXCEPT !.players[id].position = WrapBackwards(@),
                   !.players[id].screenShake = DecayShake(@, 60, dt)]

\* CheckAllFinished satisfied by one finished vehicle
CheckAnyFinished(g) ==
    IF Cardinality(DOMAIN g.playerFinishTimes) >= 1
    THEN [g EXCEPT !.gameState = "FINISHED"] ELSE g

\* "Check if all players finished"
CheckAllFinished(g) ==
    IF Cardinality(DOMAIN g.playerFinishTimes) = Cardinality(DOMAIN g.players)
    THEN [g EXCEPT !.gameState = "FINISHED"] ELSE g

\* UpdateTwo with the confirm input not consulted before the reset
UpdateTwoResetUnasked(g, k, dt, timestamp) ==
    LET g1 == CountdownStep(g, dt, timestamp)
    IN  IF g1.gameState = "FINISHED"
        THEN ResetTwo(g1, timestamp)
        ELSE IF g1.gameState = "COUNTDOWN" THEN g1
        ELSE CheckAllFinished(UpdatePlayer(UpdatePlayer(g1, 1, k, dt, timestamp), 2, k, dt, timestamp))

UpdateTwo(g, k, dt, timestamp) ==
    LET g1 == CountdownStep(g, dt, timestamp)
    IN  IF g1.gameState = "FINISHED"
        THEN (IF inputEnter(k) THEN ResetTwo(g1, timestamp) ELSE g1)
        ELSE IF g1.gameState = "COUNTDOWN" THEN g1
        ELSE CheckAllFinished(UpdatePlayer(UpdatePlayer(g1, 1, k, dt, timestamp), 2, k, dt, timestamp))

\* single-human build, "Lap Timing" and "Check for Race Completion"
LapTimingSingle(g, dt, timestamp) ==
    LET p == g.players[1]
        lastPosition == p.position - p.speed * dt
    IN  IF lastPosition < segmentLength * 3 /\ p.position >= segmentLength * 3
        THEN LET g1 == [g EXCEPT !.players[1] = CompleteLap(p, timestamp)]
             IN  IF g1.players[1].currentLap > TOTAL_LAPS
                 THEN [g1 EXCEPT !.gameState = "FINISHED",
                                 !.totalRaceTime = timestamp - g.raceStartTime,
                                 !.players[1].speed = 0]
                 ELSE g1
        ELSE g

\* UpdateSingle moving the opponents during the countdown as well
UpdateSingleOpponentsEarly(g, k, dt, timestamp) ==
    LET g1 == CountdownStep(g, dt, timestamp)
    IN  IF g1.gameState = "FINISHED"
        THEN (IF inputEnter(k) THEN ResetSingle(g1) ELSE g1)
        ELSE IF g1.gameState = "COUNTDOWN"
        THEN [g1 EXCEPT !.opponents = [i \in DOMAIN @ |-> OpponentUpdate(@[i], dt)]]
        ELSE LET g2 == [g1 EXCEPT !.players[1] = Drive(@, inputGetters(k), dt)]
                 g3 == LapTimingSingle(g2, dt, timestamp)
             IN  [g3 EXCEPT !.players[1].position = @ % trackLength,
                            !.opponents = [i \in DOMAIN @ |-> OpponentUpdate(@[i], dt)]]

UpdateSingle(g, k, dt, timestamp) ==
    LET g1 == CountdownStep(g, dt, timestamp)
    IN  IF g1.gameState = "FINISHED"
        THEN (IF inputEnter(k) THEN ResetSingle(g1) ELSE g1)
        ELSE IF g1.gameState = "COUNTDOWN" THEN g1
        ELSE LET g2 == [g1 EXCEPT !.players[1] = Drive(@, inputGetters(k), dt)]
                 g3 == LapTimingSingle(g2, dt, timestamp)
             IN  [g3 EXCEPT !.players[1].position = @ % trackLength,
                            !.opponents = [i \in DOMAIN @ |-> OpponentUpdate(@[i], dt)]]

\* Update letting the countdown timer run during the countdown only
UpdateTimerInCountdownOnly(b, g, k, dt, timestamp) ==
    LET g1 == IF b = "two" THEN UpdateTwo(g, k, dt, timestamp)
                           ELSE UpdateSingle(g, k, dt, timestamp)
    IN  IF g.gameState = "COUNTDOWN" \/ g1.countdownTimer = CountdownStart
        THEN g1
        ELSE [g1 EXCEPT !.countdownTimer = g.countdownTimer]

Update(b, g, k, dt, timestamp) ==
    IF b = "two" THEN UpdateTwo(g, k, dt, timestamp) ELSE UpdateSingle(g, k, dt, timestamp)

\* loop handing the whole gap to update
FrameUnclamped(b, g, k, timestamp) ==
    LET deltaTime == timestamp - g.lastTime
        g1 == Update(b, [g EXCEPT !.lastTime = timestamp], k, deltaTime, timestamp)
    IN  [g1 EXCEPT !.players = [id \in DOMAIN @ |-> [@[id] EXCEPT !.screenShake = DecayShake(@, 100, deltaTime)]]]

\* what loop does to the game in the frame of the given timestamp
Frame(b, g, k, timestamp) ==
    LET deltaTime == Min(MaxDt(b), timestamp - g.lastTime)
        g1 == Update(b, [g EXCEPT !.lastTime = timestamp], k, deltaTime, timestamp)
    IN  [g1 EXCEPT !.players = [id \in DOMAIN @ |-> [@[id] EXCEPT !.screenShake = DecayShake(@, 100, deltaTime)]]]

(***************************************************************************)
(* Track construction (Track.ts).  Elevations (y) and edge positions (z)   *)
(* are in 1/1000 world unit, curves in 1/1000.  Math.cos is replaced by    *)
(* Bhaskara's rational approximation cos(pi*p) = (1 - 4p^2)/(1 + p^2) on   *)
(* [0, 1/2], mirrored on [1/2, 1]; it is exact at 0, 1/2 and 1 and within  *)
(* 0.002 of the cosine elsewhere.                                          *)
(***************************************************************************)
gameVars == <<build, running, now, keys, keyEvents, game>>

\* an addRoad call: curve in 1/1000, y in segment lengths
Road(enter, hold, leave, curve, y) ==
    [enter |-> enter, hold |-> hold, leave |-> leave, curve |-> curve, y |-> y]

\* the addRoad calls createSilverstone makes, in order, with addStraight,
\* addCurve and addLowRollingHills expanded
Roads ==
    << Road(50, 50, 50, 0, 0),        Road(20, 20, 20, 2000, 20),
       Road(15, 15, 15, -1000, 0),    Road(10, 20, 10, 4000, 0),
       Road(10, 25, 10, -5000, 0),    Road(15, 15, 15, -2000, 0),
       Road(60, 60, 60, 0, 0),        Road(20, 30, 20, -3000, 0),
       Road(20, 60, 20, 3000, 0),     Road(20, 20, 20, 2000, 0),
       Road(40, 40, 40, 0, 0),        Road(10, 20, 10, 3000, 0),
       Road(10, 10, 10, -2000, 0),    Road(10, 15, 10, 3000, 0),
       Road(10, 15, 10, -3000, 0),    Road(10, 10, 10, 2000, 0),
       Road(40, 40, 40, 0, 0),        Road(25, 25, 25, 0, 30),
       Road(25, 25, 25, 0, -30),      Road(25, 25, 25, 0, 0),
       Road(15, 20, 15, 2500, -20),   Road(15, 15, 15, 0, 0),
       Road(10, 10, 10, -3000, 0),    Road(5, 5, 5, 3000, 0),
       Road(20, 40, 20, 2000, 10),    Road(10, 10, 10, 0, 0) >>

\* Track.reset, and createSilverstone about to make its first addRoad call:
\* call and loop are the position of the builder (the addRoad call it is in
\* and which of the three loops of addRoad comes next), startY the startY of
\* that call
NewTrack ==
    [segments |-> <<>>, trackLength |-> 0, lastY |-> 0,
     call |-> 1, loop |-> 1, startY |-> 0, built |-> FALSE]

\* a + (b - a) * percent^2, percent = m/t
easeIn(a, b, m, t) == a + ((b - a) * m * m) \div (t * t)

\* (-cos(percent * pi) / 2) + 0.5 in 1/1000, percent = m/t
CosEase(m, t) ==
    IF 2 * m <= t
    THEN (5000 * m * m) \div (2 * (t * t + m * m))
    ELSE LET k == t - m
         IN  (1000 * (2 * t * t - 3 * k * k)) \div (2 * (t * t + k * k))

\* a + (b - a) * ((-cos(percent * pi) / 2) + 0.5), percent = m/t
easeInOut(a, b, m, t) == a + ((b - a) * CosEase(m, t)) \div 1000

\* addSegment numbering the segments from one
addSegmentOneBased(tr, curve, y) ==
    LET n == Len(tr.segments) + 1
        color == IF (n \div rumbleLength) % 2 = 1 THEN "DARK" ELSE "LIGHT"
        segment == [index |-> n,
                    p1 |-> [y |-> tr.lastY, z |-> n * segmentLength],
                    p2 |-> [y |-> y, z |-> (n + 1) * segmentLength],
                    color |-> color, curve |-> curve]
    IN  [tr EXCEPT !.lastY = y, !.segments = Append(@, segment)]

\* Track.addSegment
addSegment(tr, curve, y) ==
    LET n == Len(tr.segments)
        color == IF (n \div rumbleLength) % 2 = 1 THEN "DARK" ELSE "LIGHT"
        segment == [index |-> n,
                    p1 |-> [y |-> tr.lastY, z |-> n * segmentLength],
                    p2 |-> [y |-> y, z |-> (n + 1) * segmentLength],
                    color |-> color, curve |-> curve]
    IN  [tr EXCEPT !.lastY = y, !.segments = Append(@, segment)]

\* the iterations of a loop of addRoad (1 enter, 2 hold, 3 leave) and the
\* segments the loops before it have added
LoopCount(r, loop) == IF loop = 1 THEN r.enter ELSE IF loop = 2 THEN r.hold ELSE r.leave

LoopOffset(r, loop) == IF loop = 1 THEN 0 ELSE IF loop = 2 THEN r.enter ELSE r.enter + r.hold

RECURSIVE addRoadLoop(_, _, _)
\* the iterations n, n + 1, ... of the loop tr.loop of the addRoad call r:
\* each adds a segment with the curve of the loop and the eased elevation
addRoadLoop(tr, r, n) ==
    IF n >= LoopCount(r, tr.loop)
    THEN tr
    ELSE LET total == r.enter + r.hold + r.leave
             startY == tr.startY
             endY == startY + r.y * segmentLength
             y == startY + ((endY - startY) \div 1000)
                             * easeInOut(0, 1000, LoopOffset(r, tr.loop) + n, total)
             curve == IF tr.loop = 1 THEN easeIn(0, r.curve, n, r.enter)
                      ELSE IF tr.loop = 2 THEN r.curve
                      ELSE easeInOut(r.curve, 0, n, r.leave)
         IN  addRoadLoop(addSegment(tr, curve, y), r, n + 1)

\* one loop of the current addRoad call; after the third, createSilverstone
\* is at its next call, whose startY is the lastY reached
addRoad(tr) ==
    LET t1 == addRoadLoop(tr, Roads[tr.call], 0)
    IN  IF tr.loop = 3
        THEN [t1 EXCEPT !.call = @ + 1, !.loop = 1, !.startY = t1.lastY]
        ELSE [t1 EXCEPT !.loop = @ + 1]

\* the end of createSilverstone: the start line colours and the track length
\* (the sprites of the segments are SegSprites)
finishSilverstone(tr) ==
    [tr EXCEPT !.segments = [i \in DOMAIN tr.segments |->
                               IF i \in {3, 4}
                               THEN [tr.segments[i] EXCEPT !.color = "START"]
                               ELSE tr.segments[i]],
               !.trackLength = Len(tr.segments) * segmentLength,
               !.built = TRUE]

(***************************************************************************)
(* Asset loading and the life cycle of the loop (loadAssets, start, stop). *)
(* An image is "loading" once loadAssets has set its src; its load event   *)
(* makes it "processing" where the handler waits for the load event of the *)
(* processed sprite, else "ready" (promise resolved); its error event      *)
(* makes it "skipped" where an onerror handler resolves the promise, else  *)
(* "failed" (the promise stays pending).                                   *)
(***************************************************************************)
Landmarks == <<"/wing.png", "/grandstand.png", "/billboard.png", "/hangar.png">>

CarSprites == <<"/car_straight.png", "/car_left_1.png", "/car_left_2.png",
                "/car_right_1.png", "/car_right_2.png">>

\* the images loadAssets requests (of the landmarks and car sprites, the first
\* NumLandmarks and NumCarSprites)
Assets ==
    {"/tree.png"} \cup {Landmarks[i] : i \in 1..Min(NumLandmarks, Len(Landmarks))}
                  \cup {CarSprites[i] : i \in 1..Min(NumCarSprites, Len(CarSprites))}

isCarSprite(a) == \E i \in DOMAIN CarSprites : CarSprites[i] = a

\* the onload handler of the image waits for the load event of the processed
\* sprite before it resolves: every image of the single-human build, the car
\* sprites of the two-human build
awaitsProcessed(b, a) == b = "single" \/ isCarSprite(a)

\* the processed sprite dispatches a load event: it is an HTMLImageElement with
\* a data URL in the single-human build, an HTMLCanvasElement (which has no
\* load event) in the two-human build
processedFiresLoad(b) == b = "single"

\* the image has an onerror handler, which resolves its promise
hasOnError(b, a) == b = "two" /\ isCarSprite(a)

\* the promise of the image is resolved
isResolved(im, a) == im[a] \in {"ready", "skipped"}

\* Promise.all(promises) is resolved
allResolved(im) == \A a \in DOMAIN im : isResolved(im, a)

\* the body of start() after the await
startBody(g, clock) ==
    [g EXCEPT !.gameState = "COUNTDOWN",
              !.countdownTimer = CountdownStart,
              !.lastTime = clock,
              !.players = [id \in DOMAIN @ |-> [@[id] EXCEPT !.lapStartTime = clock]]]

(***************************************************************************)
(* The state machine                                                       *)
(***************************************************************************)
Init ==
    /\ build \in Builds
    /\ running = FALSE
    /\ now = StartClock
    /\ keys = {}
    /\ keyEvents = 0
    /\ game = NewGame(build)
    /\ track = NewTrack
    /\ probe = NoProbe
    /\ images = [a \in Assets |-> "unrequested"]
    /\ startPc = "idle"
    /\ pendingFrames = 0
    /\ stopCalled = FALSE
    /\ travelled = [id \in PlayerIds(build) |-> 0]

\* Game.start, once the assets are loaded
Start ==
    /\ ~running
    /\ running' = TRUE
    /\ game' = [game EXCEPT !.gameState = "COUNTDOWN",
                            !.countdownTimer = CountdownStart,
                            !.lastTime = now,
                            !.players = [id \in DOMAIN @ |-> [@[id] EXCEPT !.lapStartTime = now]]]
    /\ UNCHANGED <<build, now, keys, keyEvents, others>>

\* Game.loop, called back by requestAnimationFrame with the frame's timestamp
Loop ==
    /\ running
    /\ now < StartClock + MaxElapsed(build)
    /\ \E gap \in FrameGaps(build) :
         /\ now' = now + gap
         /\ game' = Frame(build, game, keys, now + gap)
    /\ UNCHANGED <<build, running, keys, keyEvents, others>>

\* a key event is counted against MaxKeyEvents unless it arrives during a countdown
CountKeyEvent == IF game.gameState = "COUNTDOWN" THEN keyEvents ELSE keyEvents + 1

\* InputHandler.onKeyDown (a repeated keydown of a held key changes nothing)
KeyDown ==
    /\ game.gameState = "COUNTDOWN" \/ keyEvents < MaxKeyEvents
    /\ \E code \in KeyCodes \ keys : keys' = keys \cup {code}
    /\ keyEvents' = CountKeyEvent
    /\ UNCHANGED <<build, running, now, game, others>>

\* InputHandler.onKeyUp
KeyUp ==
    /\ game.gameState = "COUNTDOWN" \/ keyEvents < MaxKeyEvents
    /\ \E code \in keys : keys' = keys \ {code}
    /\ keyEvents' = CountKeyEvent
    /\ UNCHANGED <<build, running, now, game, others>>

Next == Start \/ Loop \/ KeyDown \/ KeyUp

Spec == Init /\ [][Next]_vars

TypeOK ==
    /\ build \in Builds
    /\ running \in BOOLEAN
    /\ keys \subseteq KeyCodes
    /\ game.gameState \in {"COUNTDOWN", "RACING", "FINISHED"}

(***************************************************************************)
(* The events of the life cycle                                            *)
(***************************************************************************)
\* the microtasks that follow an image event: when the event resolved the last
\* promise, loadAssets resolves and start() resumes after its await
ResumeStart(im) ==
    IF startPc = "awaiting" /\ allResolved(im)
    THEN /\ startPc' = "started"
         /\ running' = TRUE
         /\ game' = startBody(game, now)
         /\ pendingFrames' = pendingFrames + 1
    ELSE UNCHANGED <<startPc, running, game, pendingFrames>>

\* main: game.start() up to its await, loadAssets having requested every image
CallStart ==
    /\ startPc = "idle"
    /\ startPc' = "awaiting"
    /\ images' = [a \in Assets |-> "loading"]
    /\ UNCHANGED <<build, running, now, keys, keyEvents, game,
                   track, probe, pendingFrames, stopCalled, travelled>>

\* the load event of an image: its onload handler and the microtasks after it
ImageLoad ==
    /\ \E a \in DOMAIN images :
         /\ images[a] = "loading"
         /\ LET im == [images EXCEPT ![a] = IF awaitsProcessed(build, a)
                                            THEN "processing" ELSE "ready"]
            IN  images' = im /\ ResumeStart(im)
    /\ UNCHANGED <<build, now, keys, keyEvents, track, probe, stopCalled, travelled>>

\* the load event of a processed sprite: the inner onload handler
ProcessedLoad ==
    /\ processedFiresLoad(build)
    /\ \E a \in DOMAIN images :
         /\ images[a] = "processing"
         /\ LET im == [images EXCEPT ![a] = "ready"]
            IN  images' = im /\ ResumeStart(im)
    /\ UNCHANGED <<build, now, keys, keyEvents, track, probe, stopCalled, travelled>>

\* the error event of an image
ImageError ==
    /\ \E a \in DOMAIN images :
         /\ images[a] = "loading"
         /\ LET im == [images EXCEPT ![a] = IF hasOnError(build, a)
                                            THEN "skipped" ELSE "failed"]
            IN  images' = im /\ ResumeStart(im)
    /\ UNCHANGED <<build, now, keys, keyEvents, track, probe, stopCalled, travelled>>

\* Game.stop, called on a game that start() has been called on
CallStop ==
    /\ startPc # "idle"
    /\ running \/ ~stopCalled
    /\ running' = FALSE
    /\ stopCalled' = TRUE
    /\ UNCHANGED <<build, now, keys, keyEvents, game,
                   track, probe, images, startPc, pendingFrames, travelled>>

\* a frame callback requestAnimationFrame holds is run: Game.loop, which
\* returns at once when the game is not running and re-arms itself otherwise
FrameCallback ==
    /\ pendingFrames > 0
    /\ now < StartClock + MaxElapsedLife
    /\ \E gap \in FrameGaps(build) :
         /\ now' = now + gap
         /\ IF running
            THEN /\ game' = Frame(build, game, keys, now + gap)
                 /\ pendingFrames' = pendingFrames
            ELSE /\ game' = game
                 /\ pendingFrames' = pendingFrames - 1
    /\ UNCHANGED <<build, running, keys, keyEvents,
                   track, probe, images, startPc, stopCalled, travelled>>

(***************************************************************************)
(* The construction of the circuit, one loop of addRoad at a time          *)
(***************************************************************************)
AddRoad ==
    /\ track.call <= Len(Roads)
    /\ track' = addRoad(track)
    /\ UNCHANGED <<gameVars, probe, images, startPc, pendingFrames, stopCalled, travelled>>

FinishSilverstone ==
    /\ track.call = Len(Roads) + 1
    /\ ~track.built
    /\ track' = finishSilverstone(track)
    /\ UNCHANGED <<gameVars, probe, images, startPc, pendingFrames, stopCalled, travelled>>

NextTrack == AddRoad \/ FinishSilverstone

SpecTrack == Init /\ [][NextTrack]_vars

(***************************************************************************)
(* The life cycle: start() awaiting the images, stop(), frame callbacks    *)
(***************************************************************************)
NextLife ==
    CallStart \/ ImageLoad \/ ProcessedLoad \/ ImageError \/ CallStop \/ FrameCallback

SpecLife == Init /\ [][NextLife]_vars

(***************************************************************************)
(* Frames that arrive late: the gap to the previous frame may exceed the   *)
(* largest delta time of the build                                         *)
(***************************************************************************)
LoopLate ==
    /\ running
    /\ now < StartClock + MaxElapsedLate
    /\ \E gap \in LateFrameGaps(build) :
         /\ now' = now + gap
         /\ game' = Frame(build, game, keys, now + gap)
    /\ UNCHANGED <<build, running, keys, keyEvents, others>>

NextLate == Start \/ LoopLate \/ KeyDown \/ KeyUp

SpecLate == Init /\ [][NextLate]_vars

(***************************************************************************)
(* findSegment applied to a position shifted by whole laps                 *)
(***************************************************************************)
ProbePositions == {i * (segmentLength \div 2) : i \in 0..(2 * NumSegments)}

InitFind ==
    /\ build \in Builds
    /\ running = FALSE
    /\ now = StartClock
    /\ keys = {}
    /\ keyEvents = 0
    /\ game = NewGame(build)
    /\ track = NewTrack
    /\ probe \in [position : ProbePositions, k : (-MaxShift)..MaxShift,
                  called : {FALSE}, segment : {0}]
    /\ images = [a \in Assets |-> "unrequested"]
    /\ startPc = "idle"
    /\ pendingFrames = 0
    /\ stopCalled = FALSE
    /\ travelled = [id \in PlayerIds(build) |-> 0]

CallFindSegment ==
    /\ ~probe.called
    /\ probe' = [probe EXCEPT !.called = TRUE,
                              !.segment = findSegment(probe.position + probe.k * trackLength)]
    /\ UNCHANGED <<gameVars, track, images, startPc, pendingFrames, stopCalled, travelled>>

NextFind == CallFindSegment

SpecFind == InitFind /\ [][NextFind]_vars

(***************************************************************************)
(* Observations of one step, used by the properties below                  *)
(***************************************************************************)
\* the step is a frame: loop ran with timestamp now'
IsFrame == now' # now

\* the deltaTime loop hands to update in that frame
FrameDt == Min(MaxDt(build), now' - game.lastTime)

\* the frame performs a reset
IsReset == IsFrame /\ game.gameState = "FINISHED" /\ inputEnter(keys)

\* the game at the point where update has made its countdown step
AfterCountdown == CountdownStep([game EXCEPT !.lastTime = now'], FrameDt, now')

\* the input update reads for a vehicle
InputOf(id) == IF build = "two" THEN getKeys(keys, id) ELSE inputGetters(keys)

(***************************************************************************)
(* C1  The race phase only changes Countdown -> Racing (countdown step of   *)
(* update), Racing -> Finished (finish registration) and Finished ->       *)
(* Countdown (reset on the confirm input inside update); Finished stays     *)
(* Finished while confirm is not held; confirm changes nothing while the    *)
(* phase is Countdown or Racing.                                            *)
(***************************************************************************)
C1_PhaseTransitions ==
    [][ /\ game'.gameState # game.gameState =>
             /\ IsFrame
             /\ \/ /\ game.gameState = "COUNTDOWN" /\ game'.gameState = "RACING"
                   /\ game.countdownTimer - FrameDt <= 0
                \/ /\ game.gameState = "RACING" /\ game'.gameState = "FINISHED"
                   /\ IF build = "two"
                      THEN DOMAIN game'.playerFinishTimes = DOMAIN game.players
                           /\ DOMAIN game.playerFinishTimes # DOMAIN game.players
                      ELSE game'.players[1].currentLap > TOTAL_LAPS
                \/ /\ game.gameState = "FINISHED" /\ game'.gameState = "COUNTDOWN"
                   /\ inputEnter(keys)
        /\ game.gameState = "FINISHED" /\ ~inputEnter(keys) => game'.gameState = "FINISHED"
        /\ IsReset => game'.gameState = "COUNTDOWN"
        /\ IsFrame /\ game.gameState # "FINISHED" =>
             /\ game' = Frame(build, game, keys \cup {"Enter"}, now')
             /\ game' = Frame(build, game, keys \ {"Enter"}, now')
      ]_vars

\* a reset has been performed after a finished race, and a race has been finished
C1_Witness ==
    /\ game.gameState = "COUNTDOWN"
    /\ game.countdownTimer < CountdownStart
    /\ IF build = "two" THEN game.raceStartTime > 0 ELSE game.players[1].bestLapTime > 0

(***************************************************************************)
(* C2  Countdown -> Racing fires in the first update whose decremented     *)
(* timer is <= 0 and only there (once per race); that update sets the      *)
(* race-start and every lap-start timestamp to its timestamp, and the      *)
(* race-start is not written again during the race, the lap-start only by  *)
(* a completed lap.                                                        *)
(***************************************************************************)
C2_CountdownOnce ==
    [][ /\ game.gameState = "COUNTDOWN" => game.countdownTimer > 0
        /\ IsFrame /\ game.gameState = "COUNTDOWN" /\ game.countdownTimer - FrameDt <= 0 =>
             /\ game'.gameState = "RACING"
             /\ game'.raceStartTime = now'
             /\ \A id \in DOMAIN game.players :
                  game'.players[id].lapStartTime = now'
        /\ IsFrame /\ game.gameState = "COUNTDOWN" /\ game.countdownTimer - FrameDt > 0 =>
             /\ game'.gameState = "COUNTDOWN"
             /\ game'.raceStartTime = game.raceStartTime
        /\ game'.gameState = "RACING" /\ game.gameState # "RACING" =>
             game.gameState = "COUNTDOWN" /\ game'.countdownTimer <= 0
        /\ game.gameState = "RACING" =>
             /\ game'.raceStartTime = game.raceStartTime
             /\ \A id \in DOMAIN game.players :
                  game'.players[id].lapStartTime # game.players[id].lapStartTime =>
                      /\ game'.players[id].currentLap = game.players[id].currentLap + 1
                      /\ game'.players[id].lapStartTime = now'
      ]_vars

\* the race has started: the timer has crossed zero and the timestamps are captured
C2_Witness ==
    /\ game.gameState = "RACING"
    /\ game.countdownTimer <= 0
    /\ game.raceStartTime > StartClock
    /\ \E id \in DOMAIN game.players : game.players[id].lapStartTime > game.raceStartTime

(***************************************************************************)
(* C3  A vehicle that crosses the finish with its lap count at the total   *)
(* gets finish time = timestamp of that update - race-start timestamp and  *)
(* speed 0 in that update; until a reset no later update changes the       *)
(* stored finish time.                                                     *)
(***************************************************************************)
C3_FinishTimeOnce ==
    [][ IF build = "two"
        THEN \A id \in DOMAIN game.players :
               LET p == AfterCountdown.players[id]
                   d == Drive(p, InputOf(id), FrameDt)
                   ft == game.playerFinishTimes
               IN  /\ ( /\ IsFrame /\ AfterCountdown.gameState = "RACING"
                        /\ d.position >= trackLength /\ p.currentLap >= TOTAL_LAPS
                        /\ id \notin DOMAIN ft )
                        => id \in DOMAIN game'.playerFinishTimes
                   /\ id \notin DOMAIN ft /\ id \in DOMAIN game'.playerFinishTimes =>
                        /\ IsFrame
                        /\ game'.playerFinishTimes[id] = now' - game.raceStartTime
                        /\ game'.players[id].speed = 0
                        /\ game.players[id].currentLap >= TOTAL_LAPS
                        /\ game'.players[id].position >= trackLength
                   /\ id \in DOMAIN ft /\ ~IsReset =>
                        /\ id \in DOMAIN game'.playerFinishTimes
                        /\ game'.playerFinishTimes[id] = ft[id]
        ELSE /\ game.gameState = "RACING" /\ game'.gameState = "FINISHED" =>
                  /\ game'.totalRaceTime = now' - game.raceStartTime
                  /\ game'.players[1].speed = 0
             /\ game.gameState = "FINISHED" /\ ~IsReset =>
                  game'.totalRaceTime = game.totalRaceTime
      ]_vars

\* a vehicle has finished and later updates have run their finish check on it
C3_Witness ==
    /\ build = "two"
    /\ game.gameState = "RACING"
    /\ \E id \in DOMAIN game.playerFinishTimes :
         /\ game.playerFinishTimes[id] + 2 * MaxDt(build) <= game.lastTime - game.raceStartTime
         /\ game.players[id].position >= trackLength

(***************************************************************************)
(* C4  Two-human build: the winner is null until the first finish time is  *)
(* recorded, is then the vehicle recording it and does not change until    *)
(* reset; a set winner has a finish time and nobody has a smaller one.     *)
(***************************************************************************)
C4_WinnerIsFirst ==
    [][ build = "two" =>
          /\ game.winnerId = NoWinner <=> DOMAIN game.playerFinishTimes = {}
          /\ game'.winnerId = NoWinner <=> DOMAIN game'.playerFinishTimes = {}
          /\ game'.winnerId # NoWinner =>
               /\ game'.winnerId \in DOMAIN game'.playerFinishTimes
               /\ \A o \in DOMAIN game'.playerFinishTimes :
                    game'.playerFinishTimes[o] >= game'.playerFinishTimes[game'.winnerId]
          /\ game.winnerId # NoWinner /\ ~IsReset => game'.winnerId = game.winnerId
          /\ game.winnerId = NoWinner /\ game'.winnerId # NoWinner =>
               game'.winnerId \in DOMAIN game'.playerFinishTimes \ DOMAIN game.playerFinishTimes
      ]_vars

\* both vehicles have finished, the winner strictly earlier than the other
C4_Witness ==
    /\ build = "two"
    /\ game.winnerId # NoWinner
    /\ \E o \in DOMAIN game.playerFinishTimes :
         game.playerFinishTimes[o] > game.playerFinishTimes[game.winnerId]

(***************************************************************************)
(* C5  Two-human build: the phase is Finished exactly when every vehicle   *)
(* has a recorded finish time.                                             *)
(***************************************************************************)
C5_FinishedIffAllFinished ==
    build = "two" =>
        (game.gameState = "FINISHED" <=> DOMAIN game.playerFinishTimes = DOMAIN game.players)

\* the race of the two-human build is over
C5_Witness ==
    /\ build = "two"
    /\ game.gameState = "FINISHED"
    /\ game.playerFinishTimes[1] # game.playerFinishTimes[2]

(***************************************************************************)
(* C6  Two-human build: an update whose integration carries a vehicle to   *)
(* or past trackLength while its lap count is below the total subtracts    *)
(* trackLength, adds exactly one lap, sets last-lap to timestamp - previous *)
(* lap-start, best-lap to the new last-lap if best-lap was 0 or larger,    *)
(* and lap-start to the timestamp; the lap count stays in 1..TOTAL_LAPS.   *)
(***************************************************************************)
C6_LapCompletion ==
    [][ build = "two" =>
          \A id \in DOMAIN game.players :
            LET p == game.players[id]
                q == game'.players[id]
            IN  /\ p.currentLap \in 1..TOTAL_LAPS /\ q.currentLap \in 1..TOTAL_LAPS
                /\ IsFrame /\ game.gameState = "RACING" =>
                     IF p.currentLap < TOTAL_LAPS /\ p.position + q.speed * FrameDt >= trackLength
                     THEN /\ q.position = p.position + q.speed * FrameDt - trackLength
                          /\ q.currentLap = p.currentLap + 1
                          /\ q.lastLapTime = now' - p.lapStartTime
                          /\ q.bestLapTime = IF p.bestLapTime = 0 \/ q.lastLapTime < p.bestLapTime
                                             THEN q.lastLapTime ELSE p.bestLapTime
                          /\ q.lapStartTime = now'
                     ELSE /\ q.currentLap = p.currentLap
                          /\ q.lastLapTime = p.lastLapTime
                          /\ q.bestLapTime = p.bestLapTime
                          /\ q.lapStartTime = p.lapStartTime
      ]_vars

\* a vehicle has completed two laps, the second slower than the first
C6_Witness ==
    /\ build = "two"
    /\ \E id \in DOMAIN game.players :
         /\ game.players[id].currentLap = TOTAL_LAPS
         /\ game.players[id].bestLapTime > 0
         /\ game.players[id].lastLapTime > game.players[id].bestLapTime

(***************************************************************************)
(* C7  At the end of every update the track position of every vehicle      *)
(* (human vehicles of both builds, AI opponent) is in [0, trackLength).    *)
(***************************************************************************)
C7_PositionInTrack ==
    /\ \A id \in DOMAIN game.players :
         0 <= game.players[id].position /\ game.players[id].position < trackLength
    /\ \A i \in DOMAIN game.opponents :
         0 <= game.opponents[i].position /\ game.opponents[i].position < trackLength

(***************************************************************************)
(* C8  At the end of every update every human vehicle has its speed in     *)
(* [MAX_REVERSE_SPEED, maxSpeed] and its lateral offset in [-2, 2]; the    *)
(* position is integrated with the clamped speed, so a vehicle at a bound  *)
(* that the step pushes further moves by exactly bound * dt.               *)
(***************************************************************************)
C8_ClampBeforeIntegration ==
    [][ \A id \in DOMAIN game.players :
          LET p == game.players[id]
              q == game'.players[id]
              moved == (q.position - p.position) % trackLength
          IN  /\ MAX_REVERSE_SPEED <= q.speed /\ q.speed <= maxSpeed
              /\ -2000 <= q.playerX /\ q.playerX <= 2000
              /\ IsFrame /\ AfterCountdown.gameState = "RACING" =>
                   /\ q.speed # 0 => moved = (q.speed * FrameDt) % trackLength
                   /\ ( /\ p.speed = maxSpeed /\ InputOf(id).throttle
                        /\ ~isOffRoad(p.playerX) /\ q.speed # 0 )
                        => q.speed = maxSpeed /\ moved = (maxSpeed * FrameDt) % trackLength
                   /\ ( /\ p.speed = MAX_REVERSE_SPEED /\ InputOf(id).brake
                        /\ ~InputOf(id).throttle /\ ~isOffRoad(p.playerX) )
                        => q.speed = MAX_REVERSE_SPEED
                           /\ moved = (MAX_REVERSE_SPEED * FrameDt) % trackLength
      ]_vars

\* a vehicle at full speed on the road with the throttle held, in a race that goes on
C8_Witness ==
    /\ game.gameState = "RACING"
    /\ now < StartClock + MaxElapsed(build)
    /\ \E id \in DOMAIN game.players :
         /\ game.players[id].speed = maxSpeed
         /\ InputOf(id).throttle
         /\ ~isOffRoad(game.players[id].playerX)
         /\ game.players[id].position > 0

(***************************************************************************)
(* C9  In every Racing update in which some decoration of the segment of a *)
(* human vehicle's visual position is longitudinally close and laterally   *)
(* overlapping while the vehicle moves forward, the update returns with    *)
(* that vehicle's speed exactly 0 and its screen shake equal to 20.        *)
(***************************************************************************)
C9_CollisionStopsAndShakes ==
    running =>
      \A gap \in FrameGaps(build) :
        LET timestamp == now + gap
            dt == Min(MaxDt(build), timestamp - game.lastTime)
            g0 == [game EXCEPT !.lastTime = timestamp]
            g1 == CountdownStep(g0, dt, timestamp)
            g2 == Update(build, g0, keys, dt, timestamp)
        IN  g1.gameState = "RACING" =>
              \A id \in DOMAIN game.players :
                LET p == g1.players[id]
                    offRoad == isOffRoad(p.playerX)
                    speed1 == Accelerate(p.speed, InputOf(id), offRoad, dt)
                    x1 == Steer(p.playerX, InputOf(id), p.speed, speed1, dt)
                            - CurvePull(SegCurve(findSegment(p.position)), p.speed, dt)
                    speed2 == OffRoadPenalty(speed1, offRoad, dt)
                IN  Collides(p.position, x1, speed2) =>
                      /\ g2.players[id].speed = 0
                      /\ g2.players[id].screenShake = ShakeMagnitude

(***************************************************************************)
(* C10  A reset performed from Finished leaves every per-vehicle field     *)
(* (for the AI opponent its speed, position and lateral offset) equal to   *)
(* its value right after construction, clears the winner and sets the      *)
(* phase to Countdown with the timer at 3.5 s, in both builds.             *)
(***************************************************************************)
C10_ResetRestoresConstruction ==
    [][ IsReset =>
          /\ game'.players = NewGame(build).players
          /\ game'.opponents = NewGame(build).opponents
          /\ game'.winnerId = NoWinner
          /\ game'.playerFinishTimes = NoFinishTimes
          /\ game'.gameState = "COUNTDOWN"
          /\ game'.countdownTimer = CountdownStart
      ]_vars

(***************************************************************************)
(* C11  In every frame, whatever the gap between the timestamp and the     *)
(* previous one, the delta time handed to update is at most the maximum of *)
(* the build (100 ms two-human, 1000 ms single-human) and it is that       *)
(* clamped value every integration of the frame uses: the countdown timer  *)
(* drops by at most the maximum and a vehicle advances by at most its      *)
(* speed times the maximum.                                                *)
(***************************************************************************)
C11_DeltaTimeClamped ==
    [][ IsFrame =>
          /\ (game.countdownTimer > -1000 /\ ~IsReset) =>
               /\ game.countdownTimer - game'.countdownTimer = FrameDt
               /\ game.countdownTimer - game'.countdownTimer <= MaxDt(build)
          /\ \A id \in DOMAIN game.players :
               LET p == game.players[id]
                   q == game'.players[id]
               IN  ( /\ AfterCountdown.gameState = "RACING"
                     /\ q.speed > 0
                     /\ q.position >= p.position )
                     => q.position - p.position <= q.speed * MaxDt(build)
      ]_vars

\* a race in which a vehicle has moved, after a countdown in which the clock
\* advanced by more than the countdown timer dropped: some frame arrived late
C11_Witness ==
    /\ game.gameState = "RACING"
    /\ game.countdownTimer > -1000
    /\ now - StartClock > CountdownStart - game.countdownTimer
    /\ \E id \in DOMAIN game.players : game.players[id].position > 0

(***************************************************************************)
(* C12  findSegment is periodic in the track length: for every position    *)
(* p >= 0 and every integer k, positive or negative, findSegment(p + k *   *)
(* trackLength) is the segment findSegment(p) returns, the one of index    *)
(* floor(p / segmentLength) mod the number of segments.                    *)
(***************************************************************************)
C12_FindSegmentPeriodic ==
    probe.called =>
      /\ probe.segment = findSegment(probe.position)
      /\ probe.segment = (probe.position \div segmentLength) % NumSegments

(***************************************************************************)
(* C13  After createSilverstone the track length is the number of segments *)
(* times the segment length, segment i has index i, its near edge at       *)
(* z = i * segmentLength and its far edge at z = (i + 1) * segmentLength,  *)
(* and the far edge of the last segment is at the track length.            *)
(***************************************************************************)
C13_TrackGeometry ==
    track.built =>
      LET N == Len(track.segments)
      IN  /\ track.trackLength = N * segmentLength
          /\ \A i \in 0..(N - 1) :
               /\ track.segments[i + 1].index = i
               /\ track.segments[i + 1].p1.z = i * segmentLength
               /\ track.segments[i + 1].p2.z = (i + 1) * segmentLength
          /\ track.segments[N].p2.z = track.trackLength

\* the built circuit: the 1680 segments of the 26 addRoad calls
C13_Witness ==
    /\ track.built
    /\ track.call = Len(Roads) + 1
    /\ Len(track.segments) = 1680
    /\ track.trackLength > 0

(***************************************************************************)
(* C14  On the built track the elevation is continuous across every        *)
(* boundary of the closed sequence: the far-edge elevation of each segment *)
(* equals the near-edge elevation of the next one, the segment after the   *)
(* last being the first.                                                   *)
(***************************************************************************)
C14_ElevationContinuous ==
    track.built =>
      LET N == Len(track.segments)
      IN  \A i \in 1..N :
            track.segments[i].p2.y = track.segments[(i % N) + 1].p1.y

(***************************************************************************)
(* The keyboard alone: keydown and keyup events of every key the input     *)
(* handler reads                                                           *)
(***************************************************************************)
InputCodes ==
    {"ArrowUp", "ArrowDown", "ArrowLeft", "ArrowRight",
     "KeyW", "KeyS", "KeyA", "KeyD", "Enter"}

\* InputHandler.onKeyDown
PressKey ==
    /\ \E code \in InputCodes \ keys : keys' = keys \cup {code}
    /\ UNCHANGED <<build, running, now, keyEvents, game, others>>

\* InputHandler.onKeyUp
ReleaseKey ==
    /\ \E code \in keys : keys' = keys \ {code}
    /\ UNCHANGED <<build, running, now, keyEvents, game, others>>

NextInput == PressKey \/ ReleaseKey

SpecInput == Init /\ [][NextInput]_vars

C16_LoadFailureNonFatal ==
    ( /\ startPc # "idle"
      /\ \A a \in DOMAIN images : images[a] \in {"ready", "skipped", "failed"} )
      => startPc = "started"

(***************************************************************************)
(* C17  Once stop() has been called, no later frame callback executes      *)
(* update or render and the loop does not re-arm itself: a frame callback  *)
(* run after stop() leaves the game as it was and requests no frame,       *)
(* whatever the interleaving of start(), stop() and the frame callbacks,   *)
(* stop() while start() awaits the images included.                        *)
(***************************************************************************)
C17_StopIsFinal ==
    [][ (stopCalled /\ IsFrame) =>
          /\ game' = game
          /\ pendingFrames' = pendingFrames - 1
      ]_vars

(***************************************************************************)
(* Where a human vehicle is drawn (renderView / render)                    *)
(***************************************************************************)
\* the longitudinal position of the camera of a vehicle's viewport
cameraZ(b, position) == IF b = "two" THEN position - PLAYER_Z_OFFSET ELSE position

\* the track position of the vehicle's own sprite: it is drawn as an object
\* PLAYER_Z_OFFSET in front of the camera (playerScale = cameraDepth /
\* PLAYER_Z_OFFSET; in the single-human build the opponent placed at
\* PLAYER_Z_OFFSET stands side by side with it)
renderedPosition(b, position) == cameraZ(b, position) + PLAYER_Z_OFFSET

(***************************************************************************)
(* C18  Collision geometry and rendered position are synchronized: in      *)
(* every frame the track position at which the decoration collisions of a  *)
(* human vehicle are tested (its position plus the nose offset, wrapped)   *)
(* is the track position at which its own sprite is rendered in its        *)
(* viewport (the camera position plus the forward offset that sizes the    *)
(* sprite), modulo the track length.                                       *)
(***************************************************************************)
C18_CollisionWhereRendered ==
    running =>
      \A id \in DOMAIN game.players :
        LET position == game.players[id].position
        IN  (visualPosition(position) - renderedPosition(build, position)) % trackLength = 0

(***************************************************************************)
(* C19  In an update in which, after the countdown step, the phase is      *)
(* Countdown or Finished and no reset is performed, no vehicle's position, *)
(* speed, lateral offset, lap count, lap start, last lap or best lap       *)
(* changes, for the human vehicles and for the AI opponent, whatever keys  *)
(* are held.                                                               *)
(***************************************************************************)
C19_NoMotionOutsideRacing ==
    [][ ( /\ IsFrame
          /\ ~IsReset
          /\ AfterCountdown.gameState \in {"COUNTDOWN", "FINISHED"} ) =>
          /\ \A id \in DOMAIN game.players :
               LET p == game.players[id]
                   q == game'.players[id]
               IN  /\ q.position = p.position
                   /\ q.speed = p.speed
                   /\ q.playerX = p.playerX
                   /\ q.currentLap = p.currentLap
                   /\ q.lapStartTime = p.lapStartTime
                   /\ q.lastLapTime = p.lastLapTime
                   /\ q.bestLapTime = p.bestLapTime
          /\ game'.opponents = game.opponents
      ]_vars

\* the single-human race is over, the throttle is still held and a frame has
\* been taken since the finish
C19_Witness ==
    /\ game.gameState = "FINISHED"
    /\ build = "single"
    /\ "ArrowUp" \in keys
    /\ game.lastTime > game.raceStartTime + game.totalRaceTime

(***************************************************************************)
(* C20  The countdown timer decrements unconditionally: in every update,   *)
(* in every phase and for every timer value, values far below zero         *)
(* included, the timer after the update is the timer before minus dt,      *)
(* except in an update that performs a reset.                              *)
(***************************************************************************)
C20_TimerAlwaysDecrements ==
    [][ (IsFrame /\ ~IsReset) =>
          game'.countdownTimer = game.countdownTimer - FrameDt
      ]_vars

(***************************************************************************)
(* C20, amended  In every update that performs no reset, in every phase,   *)
(* the countdown timer drops by dt while it is above -1 s and stays as it  *)
(* is once it is at or below -1 s.                                         *)
(***************************************************************************)
C20_TimerDecrementsAboveMinusOne ==
    [][ (IsFrame /\ ~IsReset) =>
          IF game.countdownTimer > -1000
          THEN game'.countdownTimer = game.countdownTimer - FrameDt
          ELSE game'.countdownTimer = game.countdownTimer
      ]_vars

\* a race in which the timer has stopped at or below -1 s and frames have
\* been taken since: more time has passed than the timer has dropped
C20_Witness ==
    /\ game.gameState = "RACING"
    /\ game.countdownTimer <= -1000
    /\ game.lastTime - StartClock > CountdownStart - game.countdownTimer

(***************************************************************************)
(* What a frame draws                                                      *)
(***************************************************************************)
\* the game render draws in the frame of the given timestamp: loop calls
\* render when update has returned and before it decays the screen shake
Rendered(b, g, k, timestamp) ==
    LET deltaTime == Min(MaxDt(b), timestamp - g.lastTime)
    IN  Update(b, [g EXCEPT !.lastTime = timestamp], k, deltaTime, timestamp)

\* the amplitude of the shake renderView applies to a viewport
viewShake(p) == IF p.screenShake > 0 THEN p.screenShake ELSE 0

(***************************************************************************)
(* C21  Within a frame input is sampled, audio driven, the race state      *)
(* advanced, the vehicles updated, the decorative effects (confetti,       *)
(* screen-shake decay) advanced, and then the viewports and the overlays   *)
(* rendered: the effects of a frame are advanced before any viewport of    *)
(* that frame is rendered, so the shake a viewport is drawn with is the    *)
(* shake the frame ends with.                                              *)
(***************************************************************************)
C21_EffectsBeforeRender ==
    [][ IsFrame =>
          \A id \in DOMAIN game.players :
            viewShake(Rendered(build, game, keys, now').players[id])
              = game'.players[id].screenShake
      ]_vars

(***************************************************************************)
(* The projection pass of a viewport (renderView / render, project)        *)
(***************************************************************************)
\* the first index offset the pass walks: the two-human build starts a few
\* segments behind the vehicle
startOffset(b) == IF b = "two" THEN -5 ELSE 0

\* the index offsets n the pass walks
WalkedOffsets(b) == startOffset(b)..(DrawDistance - 1)

\* the index of the segment projected at offset n from the base segment
segmentIndex(b, base, n) ==
    IF b = "two" THEN JsRem(base + n + NumSegments, NumSegments)
                 ELSE JsRem(base + n, NumSegments)

\* loopOffset ignoring the wrap
loopOffsetNone(b, base, n) == 0

\* "Handle track looping for Z calculation": the track length taken off the
\* camera position for a segment beyond the end of the sequence, and added
\* (two-human build) for one before its start
loopOffset(b, base, n) ==
    IF base + n >= NumSegments THEN trackLength
    ELSE IF b = "two" /\ base + n < 0 THEN -trackLength
    ELSE 0

\* project: camera.z of the near edge (p1.world.z = index * segmentLength) of
\* the segment at offset n, for a vehicle at the given position
nearDepth(b, position, n) ==
    LET base == findSegment(position)
    IN  segmentIndex(b, base, n) * segmentLength
          - (cameraZ(b, position) - loopOffset(b, base, n))

(***************************************************************************)
(* C22  In the projection pass of every viewport, for every vehicle state  *)
(* reached, the Z offset is unwrapped: for every index offset n walked the *)
(* camera-space depth of the near edge of segment (base + n) mod N is      *)
(* (base + n) * segmentLength - cameraZ, base being the index of the       *)
(* vehicle's segment, so the depth grows by segmentLength per step of n    *)
(* also where the range crosses the wrap in either direction.              *)
(***************************************************************************)
C22_DepthUnwrapped ==
    running =>
      \A id \in DOMAIN game.players :
        LET position == game.players[id].position
            base == findSegment(position)
        IN  \A n \in WalkedOffsets(build) :
              /\ nearDepth(build, position, n)
                   = (base + n) * segmentLength - cameraZ(build, position)
              /\ n + 1 \in WalkedOffsets(build) =>
                   nearDepth(build, position, n + 1)
                     = nearDepth(build, position, n) + segmentLength

\* a race in which the walked range of a viewport runs over the end of the
\* sequence, the vehicle being in one of its last segments
C22_Witness ==
    /\ game.gameState = "RACING"
    /\ \E id \in DOMAIN game.players :
         LET base == findSegment(game.players[id].position)
         IN  /\ base < NumSegments
             /\ base + DrawDistance - 1 >= NumSegments
             /\ game.players[id].speed > 0

(***************************************************************************)
(* C23  With neither throttle nor brake held, on the road and without a    *)
(* collision, natural deceleration moves the speed toward 0 and not across *)
(* it: after the update the speed has the sign it had (or is 0) and its    *)
(* magnitude is not larger, for every starting speed and every dt within   *)
(* the clamp; a vehicle at speed 0 stays at 0.                             *)
(***************************************************************************)
C23_DecelTowardZero ==
    [][ (IsFrame /\ AfterCountdown.gameState = "RACING") =>
          \A id \in DOMAIN game.players :
            LET p == game.players[id]
                q == game'.players[id]
            IN  ( /\ ~InputOf(id).throttle
                  /\ ~InputOf(id).brake
                  /\ ~isOffRoad(p.playerX) ) =>
                  /\ p.speed > 0 => (0 <= q.speed /\ q.speed <= p.speed)
                  /\ p.speed < 0 => (p.speed <= q.speed /\ q.speed <= 0)
                  /\ p.speed = 0 => q.speed = 0
      ]_vars

(***************************************************************************)
(* C24  In every state reached, every findSegment call of update, of the   *)
(* collision test, of Opponent.update and of the rendering gets a          *)
(* non-negative position and returns a segment (an index within 0 ..       *)
(* segment count - 1): the calls are made with the position of a human     *)
(* vehicle, with its visual position and with the position of an opponent. *)
(***************************************************************************)
C24_FindSegmentDefined ==
    /\ \A id \in DOMAIN game.players :
         LET position == game.players[id].position
         IN  /\ position >= 0
             /\ findSegment(position) \in 0..(NumSegments - 1)
             /\ visualPosition(position) >= 0
             /\ findSegment(visualPosition(position)) \in 0..(NumSegments - 1)
    /\ \A i \in DOMAIN game.opponents :
         /\ game.opponents[i].position >= 0
         /\ findSegment(game.opponents[i].position) \in 0..(NumSegments - 1)

\* a vehicle of the two-human build that has reversed over the start of the
\* sequence on its first lap and is now in the last segments
C24_Witness ==
    /\ build = "two"
    /\ game.gameState = "RACING"
    /\ \E id \in DOMAIN game.players :
         /\ game.players[id].speed < 0
         /\ game.players[id].currentLap = 1
         /\ game.players[id].position > trackLength - segmentLength * 3
         /\ game.players[id].position < trackLength


(***************************************************************************)
(* The race with the distance each human vehicle has travelled             *)
(***************************************************************************)
\* the sum of the "position += speed * dt" steps of the race: a frame that
\* races adds the step update integrates, a frame that resets starts anew
Measure(b, g, k, timestamp, t) ==
    LET dt == Min(MaxDt(b), timestamp - g.lastTime)
        g1 == CountdownStep([g EXCEPT !.lastTime = timestamp], dt, timestamp)
        in(id) == IF b = "two" THEN getKeys(k, id) ELSE inputGetters(k)
    IN  IF g1.gameState = "RACING"
        THEN [id \in DOMAIN t |->
                t[id] + (Drive(g1.players[id], in(id), dt).position - g1.players[id].position)]
        ELSE IF g1.gameState = "FINISHED" /\ inputEnter(k)
        THEN [id \in DOMAIN t |-> 0]
        ELSE t

\* Game.loop, with the distance travelled recorded beside it
LoopMeasured ==
    /\ running
    /\ now < StartClock + MaxElapsed(build)
    /\ \E gap \in FrameGaps(build) :
         /\ now' = now + gap
         /\ game' = Frame(build, game, keys, now + gap)
         /\ travelled' = Measure(build, game, keys, now + gap, travelled)
    /\ UNCHANGED <<build, running, keys, keyEvents,
                   track, probe, images, startPc, pendingFrames, stopCalled>>

NextMeasured == Start \/ LoopMeasured \/ KeyDown \/ KeyUp

SpecMeasured == Init /\ [][NextMeasured]_vars

\* the frame registers the finish of the vehicle
FinishRegistered(id) ==
    /\ IsFrame
    /\ IF build = "two"
       THEN id \notin DOMAIN game.playerFinishTimes /\ id \in DOMAIN game'.playerFinishTimes
       ELSE game.gameState # "FINISHED" /\ game'.gameState = "FINISHED"

(***************************************************************************)
(* C25  A finish is only registered after TOTAL_LAPS full circuits: in the *)
(* frame that registers a vehicle's finish (its finish time recorded, or   *)
(* the phase set to Finished in the single-human build) the net forward    *)
(* distance it has travelled in the race is at least                       *)
(* TOTAL_LAPS * trackLength.                                               *)
(***************************************************************************)
C25_FinishAfterFullCircuits ==
    [][ \A id \in DOMAIN game.players :
          FinishRegistered(id) => travelled'[id] >= TOTAL_LAPS * trackLength ]_vars


\* the start/finish line of the single-human build
lapLine == segmentLength * 3

\* a forward step from position to unwrapped, shorter than a circuit, carries
\* the vehicle over the line, directly or behind the trackLength wrap
PassesLine(position, unwrapped) ==
    \/ position < lapLine /\ unwrapped >= lapLine
    \/ position >= lapLine /\ unwrapped >= lapLine + trackLength

(***************************************************************************)
(* C26  In the single-human build every forward pass over the start/finish *)
(* line at 3*segmentLength increments the lap count exactly once: a Racing *)
(* update whose integration step is forward and shorter than a circuit     *)
(* adds one lap when the step carries the vehicle over the line (also when *)
(* the step crosses the trackLength wrap first) and none otherwise.        *)
(***************************************************************************)
C26_LapPerPass ==
    [][ (build = "single" /\ IsFrame /\ AfterCountdown.gameState = "RACING") =>
          LET p == AfterCountdown.players[1]
              d == Drive(p, InputOf(1), FrameDt)
          IN  (d.position > p.position /\ d.position - p.position < trackLength) =>
                game'.players[1].currentLap =
                    p.currentLap + (IF PassesLine(p.position, d.position) THEN 1 ELSE 0) ]_vars


(***************************************************************************)
(* C27  In the two-human build a vehicle that has registered its finish is *)
(* stopped for the rest of the race: in every frame after the one that     *)
(* recorded its finish time, until a reset, its position and its speed do  *)
(* not change, whatever keys are held.                                     *)
(***************************************************************************)
C27_FinishedStaysStopped ==
    [][ (build = "two" /\ IsFrame /\ ~IsReset) =>
          \A id \in DOMAIN game.playerFinishTimes :
              /\ game'.players[id].position = game.players[id].position
              /\ game'.players[id].speed = game.players[id].speed ]_vars


\* the duration of the lap that ended at the vehicle's finish: the two-human
\* build records the finish time and leaves lapStartTime at the start of that
\* lap, the single-human build stores the duration in lastLapTime
finalLapTime(b, g, id) ==
    IF b = "two"
    THEN (g.raceStartTime + g.playerFinishTimes[id]) - g.players[id].lapStartTime
    ELSE g.players[id].lastLapTime

(***************************************************************************)
(* C28  Whenever the phase is Finished, each vehicle's best-lap time is    *)
(* the minimum of the durations of all its laps, the final lap included:   *)
(* in particular it is not above the duration of the lap that ended at the *)
(* finish.                                                                 *)
(***************************************************************************)
C28_BestLapIncludesFinal ==
    game.gameState = "FINISHED" =>
        \A id \in DOMAIN game.players :
            game.players[id].bestLapTime <= finalLapTime(build, game, id)


(***************************************************************************)
(* The decorations of the whole circuit                                    *)
(***************************************************************************)
\* the addSideObject calls of createSilverstone: source, side, margin (1/1000)
SideObjects ==
    {<<"/wing.png", 1, 200>>,
     <<"/billboard.png", -1, 100>>, <<"/billboard.png", 1, 100>>,
     <<"/billboard.png", 1, 200>>, <<"/billboard.png", 1, 300>>,
     <<"/grandstand.png", -1, 100>>, <<"/grandstand.png", 1, 100>>,
     <<"/hangar.png", 1, 400>>, <<"/hangar.png", -1, 400>>}

\* every decoration createSilverstone attaches to some segment
Decorations ==
    {[source |-> o[1], offset |-> SideObjectOffset(o[1], o[2], o[3])] : o \in SideObjects}
    \cup {[source |-> "/tree.png", offset |-> -2500], [source |-> "/tree.png", offset |-> 1500]}

\* the lateral offset and the speed update tests for a collision
lateralAtTest(p, in, dt) ==
    LET speed1 == Accelerate(p.speed, in, isOffRoad(p.playerX), dt)
    IN  Steer(p.playerX, in, p.speed, speed1, dt)
          - CurvePull(SegCurve(findSegment(p.position)), p.speed, dt)

speedAtTest(p, in, dt) ==
    OffRoadPenalty(Accelerate(p.speed, in, isOffRoad(p.playerX), dt), isOffRoad(p.playerX), dt)

\* no decoration of the circuit overlaps a vehicle at either edge of the road
RoadEdgesClear ==
    \A d \in Decorations : \A x \in {-1000, 1000} : ~isLaterallyOverlapping(x, d)

(***************************************************************************)
(* C29  On the circuit built by createSilverstone a vehicle on the road    *)
(* never collides: in every Racing update, if the lateral offset at the    *)
(* collision test is within [-1, 1], no decoration of the circuit fulfils  *)
(* the lateral-overlap condition at that offset, nor at either road edge,  *)
(* and the collision does not fire.                                        *)
(***************************************************************************)
C29_NoCollisionOnRoad ==
    [][ IsFrame =>
          \A g \in {AfterCountdown} :
            g.gameState = "RACING" =>
              \A id \in DOMAIN g.players :
                \A lateral \in {lateralAtTest(g.players[id], InputOf(id), FrameDt)} :
                  Abs(lateral) <= 1000 =>
                    /\ RoadEdgesClear
                    /\ \A d \in Decorations : ~isLaterallyOverlapping(lateral, d)
                    /\ ~Collides(g.players[id].position, lateral,
                                 speedAtTest(g.players[id], InputOf(id), FrameDt)) ]_vars

\* a vehicle drives forward on the road through the near half of a segment
\* that carries decorations
C29_Witness ==
    /\ game.gameState = "RACING"
    /\ \E id \in DOMAIN game.players :
         LET p == game.players[id]
         IN  /\ p.speed > 0 /\ Abs(p.playerX) <= 1000 /\ p.playerX # 0
             /\ SegSprites(findSegment(visualPosition(p.position))) # {}
             /\ isLongitudinallyClose(p.position)


\* the segments of the modelled circuit that carry a decoration
DecoratedSegments == {s \in 0..(NumSegments - 1) : SegSprites(s) # {}}

(***************************************************************************)
(* C30  A vehicle cannot drive through a decoration: no Racing update      *)
(* carries a forward-moving vehicle's visual position from before a        *)
(* decoration's segment to beyond that segment while the lateral offset    *)
(* overlaps the decoration both at the collision test and after the        *)
(* update, since the collision has to fire before the segment is passed.   *)
(***************************************************************************)
C30_NoDriveThrough ==
    [][ IsFrame =>
          \A g \in {AfterCountdown} :
            g.gameState = "RACING" =>
              \A id \in DOMAIN g.players :
                \A p \in {g.players[id]} :
                  \A d \in {Drive(p, InputOf(id), FrameDt)} :
                    \A lateral \in {lateralAtTest(p, InputOf(id), FrameDt)} :
                      \A s \in DecoratedSegments :
                        \A spriteData \in SegSprites(s) :
                          ~ /\ d.position > p.position
                            /\ visualPosition(p.position) < s * segmentLength
                            /\ visualPosition(p.position) + (d.position - p.position)
                                 >= (s + 1) * segmentLength
                            /\ isLaterallyOverlapping(lateral, spriteData)
                            /\ isLaterallyOverlapping(d.playerX, spriteData) ]_vars

====
